---- MODULE Spec2Model ----
(***************************************************************************)
(* Worker-side scheduling and lifecycle engine of langport:                *)
(*   langport/core/base_worker.py        BaseModelWorker                   *)
(*   langport/core/generation_worker.py  batch_generation,                 *)
(*                                       inference_generation,             *)
(*                                       GenerationModelWorker             *)
(*                                                                         *)
(* Execution contexts: the caller thread (start / stop), the asyncio loop  *)
(* (generation_stream: add_task then fetch_task_result), and the thread of *)
(* the "generation_inference" timer (inference_generation).  A step of the *)
(* model is one atomic piece of one context: a list append / pop, a dict   *)
(* store / delete, or the code between two such operations.                *)
(***************************************************************************)
EXTENDS Integers, Sequences, FiniteSets, TLC

\* ---------------------------------------------------------------- bounds
MaxTasks          == 1   \* tasks submitted in Spec
MaxQueueTasks     == 5   \* tasks submitted in QueueSpec
MaxNewTokens      == 2   \* task.max_new_tokens ranges over 1..MaxNewTokens
MaxPromptLen      == 2   \* true prompt length ranges over 1..MaxPromptLen
MaxBatchSize      == 2   \* max_batch ranges over 1..MaxBatchSize
MaxStreamInterval == 2   \* stream_interval ranges over 1..MaxStreamInterval
MaxCalls          == 1   \* start()/stop() calls of the caller thread in Spec
MaxLifeCalls      == 4   \* start()/stop() calls in LifeSpec
MaxBatchTasks     == 2   \* tasks queued at the start of PassSpec
MaxDrains         == 4   \* direct fetch_tasks calls in QueueSpec
MaxBeatCalls      == 2   \* start()/stop() calls in BeatSpec
MaxClockTicks     == 8   \* check periods that elapse in BeatSpec
MaxTickTasks       == 2   \* tasks submitted in TickSpec
MaxBeats          == 5   \* heartbeat requests made in BeatSpec

\* ------------------------------------------------------------- constants
EOS_TOKEN_ID == 0        \* tokenizer.eos_token_id
Vocab        == {EOS_TOKEN_ID, 1}

WORKER_HEART_BEAT_INTERVAL       == 30
WORKER_HEART_BEAT_CHECK_INTERVAL == 5
STOP_AFTER_ATTEMPT               == 5   \* @retry(stop=stop_after_attempt(5))

HEARTBEAT            == "heartbeat"
GENERATION_INFERENCE == "generation_inference"

\* Responses of the controller to /register_worker and /remove_worker:
\* status 200, another status, or a transport error (requests exception).
Responses == {"ok", "status", "transport"}

VARIABLES
    \* BaseModelWorker fields
    online, timers, max_batch_size, stream_interval, task_queue, task_output,
    \* submitted GenerationTask objects, indexed by task_id
    tasks,
    \* add_task in progress: task_id appended to the queue, channel not yet made
    adding,
    \* frame of the running batch_generation generator (pc = "idle": none)
    gen,
    \* per task_id: position of its fetch_task_result coroutine
    consumer,
    \* histories
    selected,      \* per task_id: tokens selected for it, step by step
    appended,      \* per task_id: its entries of new_ids, step by step
    emitted,       \* per task_id: events yielded by batch_generation, with step
    pushed,        \* per task_id: events appended by push_task_result
    popped,        \* per task_id: events popped by fetch_task_result
    yielded,       \* per task_id: events yielded by fetch_task_result
    pass_status,   \* per task_id: "none", "running", "completed", "aborted"
    batches,       \* batches returned by fetch_tasks, in order
    \* caller thread: calls made and what the last one did
    nCalls, lastCall, lastReg,
    regCalls, deregCalls, timerInstalls, timerCancels,
    \* time.time(), in seconds
    clock,
    \* WorkerHeartBeat.last_time of the installed heartbeat callback
    last_time,
    \* frame of the running WorkerHeartBeat.__call__ (pc = "idle": none), with
    \* how the last finished call ended
    hb,
    \* heartbeat requests made to /receive_heart_beat, with time and response
    hbLog,
    \* one model step looked at on its own: logits[:, -1, :] of the step, a
    \* row of scores per batch index
    logits,
    \* the same step for a batch whose other tasks may differ
    alt_logits,
    \* per batch index: the task's logits_processor_list entry
    chains,
    \* per batch index: the tokens selected under logits and alt_logits
    picked

workerVars  == <<online, timers, max_batch_size, stream_interval>>
queueVars   == <<task_queue, tasks, adding, batches>>
streamVars  == <<task_output, consumer, pushed, popped, yielded>>
passVars    == <<gen, selected, appended, emitted, pass_status>>
callVars    == <<nCalls, lastCall, lastReg,
                 regCalls, deregCalls, timerInstalls, timerCancels>>
beatVars    == <<clock, last_time, hb, hbLog>>
rowVars     == <<logits, alt_logits, chains, picked>>
vars == <<workerVars, queueVars, streamVars, passVars, callVars, beatVars,
          rowVars>>

\* ---------------------------------------------------------------- helpers
Min(a, b) == IF a <= b THEN a ELSE b

RECURSIVE SeqMax(_)
SeqMax(s) == IF Len(s) = 1 THEN s[1]
             ELSE LET m == SeqMax(Tail(s)) IN IF s[1] >= m THEN s[1] ELSE m

RECURSIVE Flatten(_)
Flatten(ss) == IF ss = <<>> THEN <<>> ELSE Head(ss) \o Flatten(Tail(ss))

IdleGen == [pc |-> "idle", tasks |-> <<>>, step |-> 0, i |-> 1,
            is_stop |-> <<>>, max_new_tokens |-> 0, new_ids |-> <<>>]

\* Variant of RegisterRaises: the status of the response is not checked.
RegisterRaises_unchecked(resp) == resp = "transport"

\* ------------------------------------------------------- worker lifecycle
\* register_to_controller: `assert r.status_code == 200`, and requests.post
\* raising on a transport error; TRUE when the call raises.
RegisterRaises(resp) == resp # "ok"

\* remove_from_controller: same shape.
RemoveRaises(resp) == resp # "ok"

\* add_timer: installs the timer unless the name is already present.
add_timer(ts, name) == ts \cup {name}

\* start(): no-op when online; else add_timer("heartbeat"), register, and
\* set online only when register_to_controller returned.
start(resp, limit) ==
    /\ nCalls < limit
    /\ nCalls' = nCalls + 1
    /\ lastCall' = "start"
    /\ UNCHANGED <<deregCalls, timerCancels>>
    /\ IF online
       THEN /\ UNCHANGED <<online, timers, lastReg, regCalls, timerInstalls,
                          last_time>>
       ELSE /\ timers' = add_timer(timers, HEARTBEAT)
            /\ last_time' = IF HEARTBEAT \in timers THEN last_time ELSE clock
            /\ timerInstalls' = IF HEARTBEAT \in timers THEN timerInstalls
                                ELSE timerInstalls + 1
            /\ regCalls' = regCalls + 1
            /\ lastReg' = resp
            /\ online' = IF RegisterRaises(resp) THEN online ELSE TRUE
    /\ UNCHANGED <<max_batch_size, stream_interval>>
    /\ UNCHANGED <<queueVars, streamVars, passVars, clock, hb, hbLog,
                   rowVars>>

\* stop(): no-op when offline; else cancel and clear all timers, deregister,
\* and set online to False only when remove_from_controller returned.
stop(resp, limit) ==
    /\ nCalls < limit
    /\ nCalls' = nCalls + 1
    /\ lastCall' = "stop"
    /\ UNCHANGED <<lastReg, regCalls, timerInstalls>>
    /\ IF ~online
       THEN /\ UNCHANGED <<online, timers, deregCalls, timerCancels>>
       ELSE /\ timerCancels' = timerCancels + Cardinality(timers)
            /\ timers' = {}
            /\ deregCalls' = deregCalls + 1
            /\ online' = IF RemoveRaises(resp) THEN online ELSE FALSE
    /\ UNCHANGED <<max_batch_size, stream_interval>>
    /\ UNCHANGED <<queueVars, streamVars, passVars, beatVars, rowVars>>

\* Variant of fetch_tasks: tasks are taken from the back of the queue.
RECURSIVE fetch_loop_back(_, _, _)
fetch_loop_back(task_batch, queue, mbs) ==
    IF Len(task_batch) <= mbs /\ Len(queue) > 0
    THEN fetch_loop_back(Append(task_batch, queue[Len(queue)]),
                         SubSeq(queue, 1, Len(queue) - 1), mbs)
    ELSE [batch |-> task_batch, queue |-> queue]

fetch_tasks_back(queue, mbs) == fetch_loop_back(<<>>, queue, mbs)

\* ------------------------------------------------------------- task queue
\* fetch_tasks: pop from the front while len(task_batch) <= max_batch_size
\* and the queue is not empty.
RECURSIVE fetch_loop(_, _, _)
fetch_loop(task_batch, queue, mbs) ==
    IF Len(task_batch) <= mbs /\ Len(queue) > 0
    THEN fetch_loop(Append(task_batch, Head(queue)), Tail(queue), mbs)
    ELSE [batch |-> task_batch, queue |-> queue]

fetch_tasks(queue, mbs) == fetch_loop(<<>>, queue, mbs)

BatchRecord(queue, r) ==
    [tasks |-> r.batch, before |-> Len(queue), after |-> Len(r.queue)]

\* add_task, first statement: self.task_queue.append(task).  The task_id is
\* the submission index; the task's parameters are the caller's.
add_task_append(limit, news, lens) ==
    /\ adding = 0
    /\ Len(tasks) < limit
    /\ \E n \in news, len \in lens :
          tasks' = Append(tasks, [max_new_tokens |-> n, length |-> len])
    /\ task_queue' = Append(task_queue, Len(tasks) + 1)
    /\ adding' = Len(tasks) + 1
    /\ consumer' = Append(consumer, "none")
    /\ selected' = Append(selected, <<>>)
    /\ appended' = Append(appended, <<>>)
    /\ emitted' = Append(emitted, <<>>)
    /\ pushed' = Append(pushed, <<>>)
    /\ popped' = Append(popped, <<>>)
    /\ yielded' = Append(yielded, <<>>)
    /\ pass_status' = Append(pass_status, "none")
    /\ UNCHANGED <<beatVars, rowVars>>
    /\ UNCHANGED <<workerVars, callVars, task_output, gen, batches>>

\* add_task, second statement: self.task_output[task.task_id] = [], followed
\* in generation_stream by the first statement of fetch_task_result
\* (out_queue = self.task_output[task_id]) with no suspension in between.
add_task_channel ==
    /\ adding # 0
    /\ task_output' = [id \in DOMAIN task_output \cup {adding} |->
                          IF id = adding THEN <<>> ELSE task_output[id]]
    /\ consumer' = [consumer EXCEPT ![adding] = "polling"]
    /\ adding' = 0
    /\ UNCHANGED <<beatVars, rowVars>>
    /\ UNCHANGED <<workerVars, callVars, task_queue, tasks, batches,
                   pushed, popped, yielded, passVars>>

\* fetch_tasks called on its own (the drain operation of the queue).
drain ==
    /\ LET r == fetch_tasks(task_queue, max_batch_size) IN
          /\ task_queue' = r.queue
          /\ batches' = Append(batches, BatchRecord(task_queue, r))
    /\ Len(batches) < MaxDrains
    /\ UNCHANGED <<beatVars, rowVars>>
    /\ UNCHANGED <<workerVars, callVars, tasks, adding, streamVars, passVars>>

\* ------------------------------------------------------ result channels
\* push_task_result: self.task_output[task_id].append(response); raises
\* KeyError when the task_id has no entry.
PushRaises(output, task_id) == task_id \notin DOMAIN output

push_task_result(output, task_id, response) ==
    [output EXCEPT ![task_id] = Append(@, response)]

\* Variant of PopEvent: out_queue.pop() takes the newest event.
PopEvent_back(out_queue) ==
    [event |-> out_queue[Len(out_queue)],
     rest  |-> SubSeq(out_queue, 1, Len(out_queue) - 1)]

\* out_queue.pop(0)
PopEvent(out_queue) == [event |-> Head(out_queue), rest |-> Tail(out_queue)]

\* Variant of Yields: every popped event is yielded.
Yields_all(event) == TRUE

\* fetch_task_result: a "done" event ends the loop without being yielded,
\* an "error" event is yielded and ends the loop, any other event is yielded.
Yields(event) == event.type # "done"
Breaks(event) == event.type \in {"done", "error"}

\* One iteration of the polling loop of fetch_task_result that finds an
\* event (an empty out_queue only sleeps).
fetch_task_result_poll(task_id) ==
    /\ consumer[task_id] = "polling"
    /\ Len(task_output[task_id]) > 0
    /\ LET p == PopEvent(task_output[task_id]) IN
          /\ task_output' = [task_output EXCEPT ![task_id] = p.rest]
          /\ popped' = [popped EXCEPT ![task_id] = Append(@, p.event)]
          /\ yielded' = IF Yields(p.event)
                        THEN [yielded EXCEPT ![task_id] = Append(@, p.event)]
                        ELSE yielded
          /\ consumer' = IF Breaks(p.event)
                         THEN [consumer EXCEPT ![task_id] = "closing"]
                         ELSE consumer
    /\ UNCHANGED <<beatVars, rowVars>>
    /\ UNCHANGED <<workerVars, callVars, queueVars, passVars, pushed>>

\* After the loop: del self.task_output[task_id].
DelEntry(output, task_id) ==
    [id \in DOMAIN output \ {task_id} |-> output[id]]

fetch_task_result_close(task_id) ==
    /\ consumer[task_id] = "closing"
    /\ task_output' = DelEntry(task_output, task_id)
    /\ consumer' = [consumer EXCEPT ![task_id] = "ended"]
    /\ UNCHANGED <<beatVars, rowVars>>
    /\ UNCHANGED <<workerVars, callVars, queueVars, passVars,
                   pushed, popped, yielded>>

\* ------------------------------------------------------- decoding engine
\* token == tokenizer.eos_token_id
IsEos(token) == token = EOS_TOKEN_ID

\* step % stream_interval == 0 or step == max_new_tokens - 1 or is_stop[i]
ShouldEmit(step, interval, max_new_tokens, eos) ==
    \/ step % interval = 0
    \/ step = max_new_tokens - 1
    \/ eos

\* tokenizer.decode(ids, skip_special_tokens=True): the text of the ids that
\* are not special tokens, written as the sequence of those ids.
decode(ids) == SelectSeq(ids, LAMBDA id : id # EOS_TOKEN_ID)

\* GenerationWorkerResult(type="data", text=output, usage=UsageInfo(...))
DataEvent(task_id, length, step, text) ==
    [task_id |-> task_id, type |-> "data", text |-> text,
     prompt_tokens |-> length,
     total_tokens |-> length + step,
     completion_tokens |-> step]

\* BaseWorkerResult(task_id=task.task_id, type="done")
DoneEvent(task_id) == [task_id |-> task_id, type |-> "done"]

RECURSIVE SeqMin(_)
SeqMin(s) == IF Len(s) = 1 THEN s[1] ELSE Min(s[1], SeqMin(Tail(s)))

\* current_len = input_ids.shape[1]: min(length) columns at the start, one
\* more after every step.
current_len(g) ==
    SeqMin([k \in DOMAIN g.tasks |-> tasks[g.tasks[k]].length]) + g.step

\* full_input_ids[i, pos] for pos < length[i]: the prompt token of the task
\* at the 0-based position pos.  The tokenizer's output is taken as given:
\* one value per task and position, none of them in Vocab.
full_input_ids(task_id, pos) == 10 * task_id + pos

\* Variant of AppendedToken: the selected token is appended at every step.
AppendedToken_selected(cur, length, prompt_token, token) == token

\* `if current_len < length[i]: new_ids.append(full_input_ids[i,
\* current_len]) else: new_ids.append(token)`
AppendedToken(cur, length, prompt_token, token) ==
    IF cur < length THEN prompt_token ELSE token

\* Control after the body of `for i in range(batch_size)` for task i: the
\* next task, or the next step (which starts with `new_ids = []`), or the
\* end of `for step in range(...)`.
Advance(g) ==
    IF g.i < Len(g.tasks) THEN [g EXCEPT !.pc = "select", !.i = g.i + 1]
    ELSE IF g.step + 1 < g.max_new_tokens
         THEN [g EXCEPT !.pc = "select", !.i = 1, !.step = g.step + 1,
                        !.new_ids = <<>>]
         ELSE IdleGen

\* pass_status of the batch once the generator has returned or raised.
Finish(g, how) ==
    [id \in DOMAIN pass_status |->
        IF \E k \in DOMAIN g.tasks : g.tasks[k] = id THEN how
        ELSE pass_status[id]]

\* Variant of GenerationTimerFires: the timer calls its callback again while
\* the previous call has not returned.
GenerationTimerFires_reentrant ==
    GENERATION_INFERENCE \in timers

\* The "generation_inference" interval timer calls its callback again: the
\* timer is installed (not cancelled) and its thread is not inside a call.
GenerationTimerFires ==
    /\ GENERATION_INFERENCE \in timers
    /\ gen.pc = "idle"

\* inference_generation up to the first step of batch_generation: returns
\* when offline or when fetch_tasks gives no task; else sets up the pass.
inference_generation ==
    /\ GenerationTimerFires
    /\ online
    /\ LET r == fetch_tasks(task_queue, max_batch_size) IN
          /\ Len(r.batch) # 0
          /\ task_queue' = r.queue
          /\ batches' = Append(batches, BatchRecord(task_queue, r))
          /\ gen' = [pc |-> "select", tasks |-> r.batch, step |-> 0, i |-> 1,
                     is_stop |-> [k \in DOMAIN r.batch |-> FALSE],
                     max_new_tokens |->
                        SeqMax([k \in DOMAIN r.batch |->
                                   tasks[r.batch[k]].max_new_tokens]),
                     new_ids |-> <<>>]
          /\ pass_status' = [id \in DOMAIN pass_status |->
                               IF \E k \in DOMAIN r.batch : r.batch[k] = id
                               THEN "running" ELSE pass_status[id]]
    /\ UNCHANGED <<beatVars, rowVars>>
    /\ UNCHANGED <<workerVars, callVars, tasks, adding, streamVars,
                   selected, appended, emitted>>

\* Body of the inner loop for task i at the current step, up to and
\* including the push of its data event: token selection by the backend,
\* is_stop[i], the streaming condition, the yield and push_task_result.
batch_generation_select(token) ==
    /\ gen.pc = "select"
    /\ LET task_id == gen.tasks[gen.i]
           eos    == IsEos(token)
           new_id  == AppendedToken(current_len(gen), tasks[task_id].length,
                                    full_input_ids(task_id, current_len(gen)),
                                    token)
           g1      == [gen EXCEPT !.is_stop[gen.i] = eos,
                                  !.new_ids = Append(@, new_id)]
           event   == DataEvent(task_id, tasks[task_id].length, gen.step,
                                decode(g1.new_ids))
       IN
          /\ selected' = [selected EXCEPT ![task_id] = Append(@, token)]
          /\ appended' = [appended EXCEPT ![task_id] = Append(@, new_id)]
          /\ IF ShouldEmit(gen.step, stream_interval, gen.max_new_tokens, eos)
             THEN /\ emitted' = [emitted EXCEPT ![task_id] =
                         Append(@, [event |-> event, step |-> gen.step])]
                  /\ IF PushRaises(task_output, task_id)
                     THEN /\ gen' = IdleGen
                          /\ pass_status' = Finish(gen, "aborted")
                          /\ UNCHANGED <<task_output, pushed>>
                     ELSE /\ task_output' =
                                push_task_result(task_output, task_id, event)
                          /\ pushed' = [pushed EXCEPT ![task_id] =
                                           Append(@, event)]
                          /\ gen' = IF eos THEN [g1 EXCEPT !.pc = "done"]
                                    ELSE Advance(g1)
                          /\ pass_status' =
                                IF ~eos /\ Advance(g1) = IdleGen
                                THEN Finish(gen, "completed")
                                ELSE pass_status
             ELSE /\ gen' = Advance(g1)
                  /\ pass_status' = IF Advance(g1) = IdleGen
                                    THEN Finish(gen, "completed")
                                    ELSE pass_status
                  /\ UNCHANGED <<task_output, pushed, emitted>>
    /\ UNCHANGED <<beatVars, rowVars>>
    /\ UNCHANGED <<workerVars, callVars, queueVars, consumer, popped, yielded>>

\* `if is_stop[i]: yield BaseWorkerResult(type="done")` and its push.
batch_generation_done ==
    /\ gen.pc = "done"
    /\ LET task_id == gen.tasks[gen.i]
           event   == DoneEvent(task_id)
       IN
          /\ emitted' = [emitted EXCEPT ![task_id] =
                            Append(@, [event |-> event, step |-> gen.step])]
          /\ IF PushRaises(task_output, task_id)
             THEN /\ gen' = IdleGen
                  /\ pass_status' = Finish(gen, "aborted")
                  /\ UNCHANGED <<task_output, pushed>>
             ELSE /\ task_output' =
                        push_task_result(task_output, task_id, event)
                  /\ pushed' = [pushed EXCEPT ![task_id] = Append(@, event)]
                  /\ gen' = Advance(gen)
                  /\ pass_status' = IF Advance(gen) = IdleGen
                                    THEN Finish(gen, "completed")
                                    ELSE pass_status
    /\ UNCHANGED <<beatVars, rowVars>>
    /\ UNCHANGED <<workerVars, callVars, queueVars, consumer, popped, yielded,
                   selected, appended>>

\* The backend call at the start of a step raises (for instance accelerator
\* memory exhaustion): nothing catches it, the generator and
\* inference_generation end there.
backend_error ==
    /\ gen.pc = "select"
    /\ gen.i = 1
    /\ gen' = IdleGen
    /\ pass_status' = Finish(gen, "aborted")
    /\ UNCHANGED <<beatVars, rowVars>>
    /\ UNCHANGED <<workerVars, callVars, queueVars, streamVars,
                   selected, appended, emitted>>

\* ------------------------------------------------------- token selection
\* Scores of the tokens of Vocab in one row of logits[:, -1, :].
Scores == {0, 1}

Rows == [Vocab -> Scores]

\* prepare_logits_processor: the empty list, or a list holding a
\* TopKLogitsWarper(top_k = 1).
Chains == {"none", "top_k"}

\* filter_value of the warper (-inf): below every score.
filter_value == -1

RowMax(row) == CHOOSE m \in Scores :
    (\E t \in Vocab : row[t] = m) /\ (\A t \in Vocab : row[t] <= m)

\* TopKLogitsWarper(1) on one row: scores below the best are filtered.
TopK(row) ==
    [t \in Vocab |-> IF row[t] < RowMax(row) THEN filter_value ELSE row[t]]

\* logits_processor(tmp_output_ids, scores): the warper on every row.
logits_processor(chain, scores) ==
    [k \in DOMAIN scores |-> TopK(scores[k])]

\* last_token_logits of task i, after `if logits_processor: ... else: ...`
\* (i, chain and lg are 1-based here, index 0 of the code is index 1).
last_token_logits(i, chain, lg) ==
    IF chain[i] # "none" THEN logits_processor(chain[i], lg)[1]
    ELSE lg[1]

\* int(torch.argmax(last_token_logits)): the first token of the best score.
argmax(row) ==
    CHOOSE t \in Vocab :
        /\ \A u \in Vocab : row[u] <= row[t]
        /\ \A u \in Vocab : row[u] = row[t] => t <= u

\* The greedy branch of the loop body for task i, on the step's logits and
\* on those of the other batch.
select_greedy(i) ==
    /\ picked[i] = <<>>
    /\ picked' = [picked EXCEPT ![i] =
                     <<argmax(last_token_logits(i, chains, logits)),
                       argmax(last_token_logits(i, chains, alt_logits))>>]
    /\ UNCHANGED <<workerVars, queueVars, streamVars, passVars, callVars,
                   beatVars, logits, alt_logits, chains>>

\* ---------------------------------------------------------- admission
\* BaseModelWorker.__init__: the configured concurrency limit, and the
\* semaphore attribute, which is set to None and assigned nowhere else.
limit_model_concurrency == 1

model_semaphore == "None"

\* get_queue_length: 0 without a semaphore, else limit - free + waiters.
get_queue_length ==
    IF model_semaphore = "None" THEN 0
    ELSE limit_model_concurrency - model_semaphore.value
         + model_semaphore.waiters

\* ------------------------------------------------------------- heartbeat
IdleBeat == [pc |-> "idle", attempt |-> 0, now_time |-> 0,
             result |-> "none", raised |-> FALSE]

\* Answers to a /receive_heart_beat request: {exist: true}, {exist: false},
\* or requests.post raising on a transport error.
BeatResponses == {"exist", "lost", "transport"}

\* Time passes: one check period.
tick_clock ==
    /\ clock < MaxClockTicks * WORKER_HEART_BEAT_CHECK_INTERVAL
    /\ clock' = clock + WORKER_HEART_BEAT_CHECK_INTERVAL
    /\ UNCHANGED <<workerVars, queueVars, streamVars, passVars, callVars,
                   last_time, hb, hbLog, rowVars>>

\* The "heartbeat" interval timer calls its callback again: the timer is
\* installed (not cancelled) and its thread is not inside a call.
HeartbeatTimerFires ==
    /\ HEARTBEAT \in timers
    /\ hb.pc = "idle"

\* now_time - self.last_time > WORKER_HEART_BEAT_INTERVAL
BeatDue(now_time, last) == now_time - last > WORKER_HEART_BEAT_INTERVAL

\* WorkerHeartBeat.__call__ up to the call of send_heart_beat: returns when
\* the worker is offline or the interval has not elapsed.
WorkerHeartBeat_call ==
    /\ HeartbeatTimerFires
    /\ online
    /\ BeatDue(clock, last_time)
    /\ hb' = [pc |-> "send", attempt |-> 1, now_time |-> clock,
              result |-> "none", raised |-> FALSE]
    /\ UNCHANGED <<workerVars, queueVars, streamVars, passVars, callVars,
                   clock, last_time, hbLog, rowVars>>

\* Variant of NeedsRegister: the exist flag is read the wrong way round.
NeedsRegister_inverted(response) == response = "exist"

\* exist = ret.json()["exist"]; if not exist: self.register_to_controller()
NeedsRegister(response) == response = "lost"

\* The attempt raises: requests.post raised, or the registration it made did.
AttemptRaises(response, resp) ==
    \/ response = "transport"
    \/ NeedsRegister(response) /\ RegisterRaises(resp)

\* What send_heart_beat raises once stop_after_attempt(5) is reached: the
\* retry decorator (reraise not set) wraps the last exception.
ExhaustedError == "RetryError"

\* `except requests.exceptions.RequestException` in WorkerHeartBeat.__call__
CallbackCatches(exc) == exc = "RequestException"

\* One attempt of send_heart_beat inside WorkerHeartBeat.__call__, and what
\* follows it: the return to __call__ (self.last_time = now_time), the next
\* attempt of the retry decorator, or the exception of the exhausted retry.
send_heart_beat(response, resp) ==
    /\ hb.pc = "send"
    /\ Len(hbLog) < MaxBeats
    /\ hbLog' = Append(hbLog, [at |-> clock, response |-> response])
    /\ regCalls' = IF NeedsRegister(response) THEN regCalls + 1 ELSE regCalls
    /\ lastReg' = IF NeedsRegister(response) THEN resp ELSE lastReg
    /\ IF ~AttemptRaises(response, resp)
       THEN /\ hb' = [hb EXCEPT !.pc = "idle", !.result = "sent"]
            /\ last_time' = hb.now_time
       ELSE IF hb.attempt < STOP_AFTER_ATTEMPT
       THEN /\ hb' = [hb EXCEPT !.attempt = hb.attempt + 1]
            /\ UNCHANGED last_time
       ELSE IF CallbackCatches(ExhaustedError)
       THEN /\ hb' = [hb EXCEPT !.pc = "idle", !.result = "exhausted"]
            /\ last_time' = hb.now_time
       ELSE /\ hb' = [hb EXCEPT !.pc = "idle", !.result = "exhausted",
                                !.raised = TRUE]
            /\ UNCHANGED last_time
    /\ UNCHANGED <<workerVars, queueVars, streamVars, passVars, clock,
                   nCalls, lastCall, deregCalls, timerInstalls, timerCancels,
                   rowVars>>

\* --------------------------------------------------------- specifications
InitCommon ==
    /\ online = FALSE
    /\ timers = {GENERATION_INFERENCE}
    /\ max_batch_size \in 1..MaxBatchSize
    /\ stream_interval \in 1..MaxStreamInterval
    /\ task_queue = <<>>
    /\ task_output = <<>>
    /\ tasks = <<>>
    /\ adding = 0
    /\ gen = IdleGen
    /\ consumer = <<>>
    /\ selected = <<>>
    /\ appended = <<>>
    /\ emitted = <<>>
    /\ pushed = <<>>
    /\ popped = <<>>
    /\ yielded = <<>>
    /\ pass_status = <<>>
    /\ batches = <<>>
    /\ nCalls = 0
    /\ lastCall = "none"
    /\ lastReg = "none"
    /\ regCalls = 0
    /\ deregCalls = 0
    /\ timerInstalls = 1
    /\ timerCancels = 0
    /\ clock = 0
    /\ last_time = 0
    /\ hb = IdleBeat
    /\ hbLog = <<>>

\* No model step is looked at on its own.
NoRows ==
    /\ logits = <<>>
    /\ alt_logits = <<>>
    /\ chains = <<>>
    /\ picked = <<>>

Init == InitCommon /\ NoRows

Next ==
    \/ \E resp \in Responses : start(resp, MaxCalls)
    \/ \E resp \in Responses : stop(resp, MaxCalls)
    \/ add_task_append(MaxTasks, 1..MaxNewTokens, {1})
    \/ add_task_channel
    \/ inference_generation
    \/ \E token \in Vocab : batch_generation_select(token)
    \/ batch_generation_done
    \/ backend_error
    \/ \E task_id \in DOMAIN consumer : fetch_task_result_poll(task_id)
    \/ \E task_id \in DOMAIN consumer : fetch_task_result_close(task_id)

Spec == Init /\ [][Next]_vars

\* The queue on its own: submissions and direct fetch_tasks calls.
QueueNext ==
    \/ add_task_append(MaxQueueTasks, {1}, {1})
    \/ add_task_channel
    \/ drain

QueueSpec == Init /\ [][QueueNext]_vars

\* The lifecycle on its own: start() and stop() calls of the caller thread.
LifeNext ==
    \/ \E resp \in Responses : start(resp, MaxLifeCalls)
    \/ \E resp \in Responses : stop(resp, MaxLifeCalls)

LifeSpec == Init /\ [][LifeNext]_vars

\* The heartbeat on its own: the lifecycle calls, the passing of time and
\* the callback of the "heartbeat" timer.
BeatNext ==
    \/ \E resp \in Responses : start(resp, MaxBeatCalls)
    \/ \E resp \in Responses : stop(resp, MaxBeatCalls)
    \/ tick_clock
    \/ WorkerHeartBeat_call
    \/ \E response \in BeatResponses, resp \in Responses :
          send_heart_beat(response, resp)

\* The batch and stream settings play no part in the heartbeat.
BeatInit ==
    InitCommon /\ NoRows /\ max_batch_size = 1 /\ stream_interval = 1

BeatSpec == BeatInit /\ [][BeatNext]_vars

\* The decoding timer against submissions: add_task on the caller's thread
\* interleaved with the ticks and passes of the timer's thread.
TickNext ==
    \/ \E resp \in Responses : start(resp, MaxCalls)
    \/ add_task_append(MaxTickTasks, {1}, {1})
    \/ add_task_channel
    \/ inference_generation
    \/ \E token \in Vocab : batch_generation_select(token)
    \/ batch_generation_done
    \/ backend_error

TickSpec == Init /\ [][TickNext]_vars

\* Token selection on its own: one step of a batch of greedy tasks, for two
\* outputs of the backend.
SelectInit ==
    /\ InitCommon
    /\ \E n \in 1..MaxBatchTasks :
          /\ logits \in [1..n -> Rows]
          /\ alt_logits \in [1..n -> Rows]
          /\ chains \in [1..n -> Chains]
          /\ picked = [k \in 1..n |-> <<>>]

SelectNext == \E i \in DOMAIN picked : select_greedy(i)

SelectSpec == SelectInit /\ [][SelectNext]_vars

\* One decoding pass on its own: an online worker with 1..MaxBatchTasks
\* tasks submitted and their channels created, no consumer scheduled.
PassInit ==
    /\ online = TRUE
    /\ timers = {GENERATION_INFERENCE, HEARTBEAT}
    /\ max_batch_size \in 1..MaxBatchSize
    /\ stream_interval \in 1..MaxStreamInterval
    /\ \E k \in 1..MaxBatchTasks :
          /\ tasks \in [1..k -> [max_new_tokens : 1..MaxNewTokens,
                                 length : 1..MaxPromptLen]]
          /\ task_queue = [id \in 1..k |-> id]
          /\ task_output = [id \in 1..k |-> <<>>]
          /\ consumer = [id \in 1..k |-> "polling"]
          /\ selected = [id \in 1..k |-> <<>>]
          /\ appended = [id \in 1..k |-> <<>>]
          /\ emitted = [id \in 1..k |-> <<>>]
          /\ pushed = [id \in 1..k |-> <<>>]
          /\ popped = [id \in 1..k |-> <<>>]
          /\ yielded = [id \in 1..k |-> <<>>]
          /\ pass_status = [id \in 1..k |-> "none"]
    /\ adding = 0
    /\ gen = IdleGen
    /\ batches = <<>>
    /\ nCalls = 1
    /\ lastCall = "start"
    /\ lastReg = "ok"
    /\ regCalls = 1
    /\ deregCalls = 0
    /\ timerInstalls = 2
    /\ timerCancels = 0
    /\ clock = 0
    /\ last_time = 0
    /\ hb = IdleBeat
    /\ hbLog = <<>>
    /\ NoRows

PassNext ==
    \/ inference_generation
    \/ \E token \in Vocab : batch_generation_select(token)
    \/ batch_generation_done
    \/ backend_error

PassSpec == PassInit /\ [][PassNext]_vars

\* The pass for prompts of different lengths: the tasks differ in their
\* prompt length only, and every step is streamed.
CatchUpInit ==
    /\ PassInit
    /\ max_batch_size = 1
    /\ stream_interval = 1
    /\ \A t \in DOMAIN tasks : tasks[t].max_new_tokens = MaxNewTokens

CatchUpSpec == CatchUpInit /\ [][PassNext]_vars

\* ================================================================ claims
Terminal == {"done", "error"}

Last(s) == s[Len(s)]

Types(s) == [k \in DOMAIN s |-> s[k].type]

EventsOf(log) == [k \in DOMAIN log |-> log[k].event]

IsData(e)     == e.type = "data"
IsTerminal(e) == e.type \in Terminal
NotDone(e)    == e.type # "done"

IsPrefix(a, b) == Len(a) <= Len(b) /\ a = SubSeq(b, 1, Len(a))

\* The events of s that precede its first terminal event.
RECURSIVE BeforeTerminal(_)
BeforeTerminal(s) ==
    IF s = <<>> \/ IsTerminal(Head(s)) THEN <<>>
    ELSE <<Head(s)>> \o BeforeTerminal(Tail(s))

InBatchAlone(task_id) ==
    \E k \in DOMAIN batches : batches[k].tasks = <<task_id>>

NeverEos(task_id) ==
    \A k \in DOMAIN selected[task_id] : ~IsEos(selected[task_id][k])

\* C1: every submitted task gets a terminal event (done or error) pushed to
\* its channel, when it hits EOS and also when it reaches max_new_tokens
\* without EOS.  Finite form: once the decoding pass of the task's batch has
\* run to its end, a terminal event has been pushed for the task (no later
\* pass ever pushes for it, so its consumer would poll forever otherwise).
C1_TerminalAfterPass ==
    \A task_id \in DOMAIN pass_status :
        pass_status[task_id] = "completed" =>
            \E k \in DOMAIN pushed[task_id] : IsTerminal(pushed[task_id][k])

\* C2: in one decoding pass, once a task's selected token is EOS, exactly
\* one done event is emitted for the task and no data event is emitted for
\* it at any later step: nothing follows a done event in what the pass
\* emits for a task.
C2_DoneIsLast ==
    \A task_id \in DOMAIN emitted :
        \A j, k \in DOMAIN emitted[task_id] :
            (j < k /\ emitted[task_id][j].event.type = "done")
                => emitted[task_id][k].event.type \notin {"data", "done"}

\* C3: a single-task batch with max_new_tokens = N and EOS never selected
\* emits exactly one done event, at step N-1, and its final data event has
\* completion_tokens = N and total_tokens = prompt_tokens + N.
C3_SingleTaskRoundTrip ==
    \A task_id \in DOMAIN pass_status :
        (/\ pass_status[task_id] = "completed"
         /\ InBatchAlone(task_id)
         /\ NeverEos(task_id))
        => LET N     == tasks[task_id].max_new_tokens
               log   == emitted[task_id]
               dones == SelectSeq(log, LAMBDA x : x.event.type = "done")
               datas == SelectSeq(EventsOf(log), IsData)
           IN /\ Len(dones) = 1
              /\ dones[1].step = N - 1
              /\ Len(datas) > 0
              /\ Last(datas).completion_tokens = N
              /\ Last(datas).total_tokens = Last(datas).prompt_tokens + N

\* C4: for each task_id, under any interleaving of pushes and polls, the
\* data events yielded to the consumer are the data events pushed before
\* the first terminal event, in push order, each once: always a prefix of
\* them, and all of them once the consumer has taken the terminal event.
C4_OrderedDelivery ==
    \A task_id \in DOMAIN yielded :
        LET data == SelectSeq(yielded[task_id], IsData) IN
           /\ IsPrefix(data, BeforeTerminal(pushed[task_id]))
           /\ consumer[task_id] \in {"closing", "ended"}
                 => data = BeforeTerminal(pushed[task_id])

C4_Witness ==
    \E task_id \in DOMAIN yielded :
        /\ consumer[task_id] = "ended"
        /\ Len(SelectSeq(yielded[task_id], IsData)) >= 2
        /\ Len(pushed[task_id]) >= 3

C6_BatchAtMostMax ==
    \A k \in DOMAIN batches :
        /\ Len(batches[k].tasks) = Min(max_batch_size, batches[k].before)
        /\ batches[k].before = 0
              => batches[k].tasks = <<>> /\ batches[k].after = 0

\* C7: the batches returned so far, concatenated, followed by the remaining
\* queue, are the submitted tasks in submission order (each task in exactly
\* one batch, FIFO within and across batches); and all batches that did not
\* exhaust the queue have the same size.
C7_FifoPartition ==
    /\ Flatten([k \in DOMAIN batches |-> batches[k].tasks]) \o task_queue
          = [id \in 1..Len(tasks) |-> id]
    /\ \A j, k \in DOMAIN batches :
          (batches[j].after > 0 /\ batches[k].after > 0)
              => Len(batches[j].tasks) = Len(batches[k].tasks)

C7_Witness ==
    /\ Len(tasks) = MaxQueueTasks
    /\ task_queue = <<>>
    /\ \E j, k \in DOMAIN batches :
          /\ j < k
          /\ batches[j].after > 0
          /\ batches[k].after > 0
          /\ Len(batches[k].tasks) >= 2

IsStartCall == nCalls' = nCalls + 1 /\ lastCall' = "start"
IsStopCall  == nCalls' = nCalls + 1 /\ lastCall' = "stop"

lifeState == <<online, timers, regCalls, deregCalls,
               timerInstalls, timerCancels>>

\* C8: start() and stop() are idempotent: a start() that follows a start()
\* which brought the worker online, and a stop() that follows a stop(),
\* make no registration or deregistration call, install or cancel no timer
\* and change no state of the worker.
C8_Idempotent ==
    [][/\ (lastCall = "start" /\ online /\ IsStartCall)
             => UNCHANGED lifeState
       /\ (lastCall = "stop" /\ IsStopCall)
             => UNCHANGED lifeState]_vars

\* C9: when the registration call made by start() gets a non-success
\* response, online is false after start(); online becomes true only in a
\* start() whose registration call returned success.
C9_RegistrationGate ==
    [][/\ (IsStartCall /\ regCalls' = regCalls + 1 /\ lastReg' # "ok")
             => ~online'
       /\ (~online /\ online')
             => (IsStartCall /\ regCalls' = regCalls + 1 /\ lastReg' = "ok")
      ]_vars

C9_Witness ==
    /\ lastCall = "start"
    /\ lastReg = "status"
    /\ regCalls >= 1
    /\ HEARTBEAT \in timers
    /\ ~online

\* C10: stop() on an online worker always ends with all timers cancelled
\* and online = false, also when the deregistration call fails.
C10_StopAlwaysOffline ==
    [][(online /\ IsStopCall) => (~online' /\ timers' = {})]_vars

\* The heartbeat requests that reached the controller and were answered.
Answered(log) == SelectSeq(log, LAMBDA x : x.response # "transport")

\* C11: two heartbeat requests to the controller are never sent less than
\* WORKER_HEART_BEAT_INTERVAL apart, whatever the firing frequency of the
\* check timer, across retry attempts and across cycles whose send failed.
C11_BeatsApart ==
    LET sent == Answered(hbLog) IN
       \A k \in 1..(Len(sent) - 1) :
           sent[k + 1].at - sent[k].at >= WORKER_HEART_BEAT_INTERVAL

\* C17: when send_heart_beat fails on every one of its retry attempts, the
\* heartbeat callback swallows the failure: no exception escapes
\* WorkerHeartBeat.__call__ and the last-sent time is advanced to the time of
\* the cycle, so the next heartbeat waits another full interval.
C17_FailureSwallowed ==
    (hb.pc = "idle" /\ hb.result = "exhausted")
        => (~hb.raised /\ last_time = hb.now_time)

\* C18: a heartbeat response with exist = false is followed, within the same
\* attempt, by exactly one registration call; a response with exist = true,
\* and a request that got no response, by none.
C18_ReRegistration ==
    [][Len(hbLog') = Len(hbLog) + 1 =>
          IF Last(hbLog').response = "lost"
          THEN regCalls' = regCalls + 1
          ELSE regCalls' = regCalls]_vars

C18_Witness ==
    /\ Len(hbLog) >= 2
    /\ hbLog[1].response = "lost"
    /\ hbLog[2].response = "exist"
    /\ regCalls = 2
    /\ hb.result = "sent"

\* Permits of the admission limiter that are taken: one while a decoding
\* pass is in progress.  No caller ever waits for a permit.
InUse == IF gen.pc # "idle" THEN 1 ELSE 0

Waiters == 0

\* C12: get_queue_length() equals in_use + waiters of the admission limiter
\* and is never negative, in every state around decoding passes.
C12_QueueLength ==
    /\ get_queue_length = InUse + Waiters
    /\ get_queue_length >= 0

PushCalled(t) == Len(emitted'[t]) > Len(emitted[t])

\* C14: add_task is safe to interleave with a decoding tick: a push for a
\* task whose add_task call is between its two statements finds the task's
\* channel present, and the creation of the channel discards no pushed
\* event.
C14_AddTaskSafe ==
    [][/\ \A t \in DOMAIN emitted :
             (PushCalled(t) /\ adding = t) => ~PushRaises(task_output, t)
       /\ (adding # 0 /\ adding' = 0) => pushed[adding] = <<>>]_vars

\* C15: push_task_result is never called for a task after a terminal event
\* was pushed for that task.
C15_NoPushAfterTerminal ==
    [][\A t \in DOMAIN emitted :
          PushCalled(t) =>
              ~\E k \in DOMAIN pushed[t] : IsTerminal(pushed[t][k])]_vars

\* C16: when a decoding pass fails, every task of its batch has a terminal
\* event in its channel history: the done event it had already received or
\* an error event pushed on the failure.
C16_FailureGivesError ==
    \A t \in DOMAIN pass_status :
        pass_status[t] = "aborted" =>
            \E k \in DOMAIN pushed[t] : IsTerminal(pushed[t][k])

\* C20: no event is emitted for a task at a step at or beyond the task's own
\* max_new_tokens.
C20_OwnCap ==
    \A t \in DOMAIN emitted :
        \A k \in DOMAIN emitted[t] :
            emitted[t][k].step < tasks[t].max_new_tokens

\* The batch that task t was fetched into, and the shortest prompt in it.
BatchOf(t) ==
    CHOOSE b \in {batches[n] : n \in DOMAIN batches} :
        \E k \in DOMAIN b.tasks : b.tasks[k] = t

MinLength(t) ==
    SeqMin([k \in DOMAIN BatchOf(t).tasks |->
               tasks[BatchOf(t).tasks[k]].length])

\* C19: at every step of a pass where the context length (shortest prompt of
\* the batch plus the step) is smaller than the task's own prompt length,
\* the token appended for the task is its prompt token at that position; at
\* every other step it is the token selected for it at that step.
C19_PromptCatchUp ==
    \A t \in DOMAIN appended :
        \A k \in DOMAIN appended[t] :
            LET pos == MinLength(t) + (k - 1) IN
                appended[t][k] =
                    IF pos < tasks[t].length
                    THEN full_input_ids(t, pos)
                    ELSE selected[t][k]

\* A task with a longer prompt than its batch mate got its prompt token at
\* step 0 and its selected token at step 1.
C19_Witness ==
    \E t \in DOMAIN appended :
        /\ Len(appended[t]) >= 2
        /\ MinLength(t) < tasks[t].length
        /\ appended[t][1] = full_input_ids(t, MinLength(t))
        /\ appended[t][2] = selected[t][2]

\* C23: whenever the worker is online, both the "heartbeat" timer and the
\* "generation_inference" timer are installed, for any sequence of start()
\* and stop() calls after construction.
C23_OnlineHasTimers ==
    online => {HEARTBEAT, GENERATION_INFERENCE} \subseteq timers

\* The task is in prompt catch-up at the step: the context length of its
\* batch is smaller than its own prompt length.
InCatchUp(t, step) == MinLength(t) + step < tasks[t].length

\* C24: no done event is emitted for a task at a step where the task is
\* still in prompt catch-up.
C24_NoDoneInCatchUp ==
    \A t \in DOMAIN emitted :
        \A k \in DOMAIN emitted[t] :
            emitted[t][k].event.type = "done" =>
                ~InCatchUp(t, emitted[t][k].step)

\* The tokens appended for task t from the first step up to the given step.
TokensSoFar(t, step) == SubSeq(appended[t], 1, step + 1)

\* C21: the text of every data event of a task is the decoding of all the
\* tokens of that task from the first step up to the step of the event, and
\* of nothing else.
C21_CumulativeText ==
    \A t \in DOMAIN emitted :
        \A k \in DOMAIN emitted[t] :
            IsData(emitted[t][k].event) =>
                emitted[t][k].event.text =
                    decode(TokensSoFar(t, emitted[t][k].step))

\* C22: under greedy decoding the token selected for a task depends on the
\* task's own row of logits only: two batch outputs that agree on the row of
\* the task give the same token for it, whatever the rows of the others.
C22_OwnRow ==
    \A i \in DOMAIN picked :
        (picked[i] # <<>> /\ logits[i] = alt_logits[i])
            => picked[i][1] = picked[i][2]

====
